---- MODULE Spec2Model ----
(***************************************************************************)
(* Model of the listing collector and its dashboard.                       *)
(*                                                                         *)
(*   collector  svrapp.run_collection_task -> crawler.fetch_listings ->    *)
(*              utils.save_data: appends one batch of rows, all stamped    *)
(*              with one batch timestamp, to the table of the complex.     *)
(*   dashboard  app.py: one script run loads the table (utils.load_data),  *)
(*              derives unique_timestamps, renders the latest view (tab1)  *)
(*              and then the history view (tab2), both through             *)
(*              render_dashboard_view.  The weekly aggregation loop of     *)
(*              render_dashboard_view is modelled one iteration per step.  *)
(*                                                                         *)
(* A timestamp is a text.  The dashboard orders and filters timestamps as  *)
(* texts (sorted(), <=) and converts them with pd.to_datetime only for the *)
(* window test, so a timestamp is modelled as the sequence of its fields   *)
(* <<day, separator, time of day>>, compared lexicographically as Python   *)
(* compares strings, and converted to an instant by ToDatetime.            *)
(***************************************************************************)
EXTENDS Integers, Sequences, FiniteSets

\* ------------------------------------------------------------------ bounds
\* Most batches a table holds (rows already stored plus collected batches).
MaxBatches == 3

\* ------------------------------------------------------- program constants
\* "if n_cnt > 30 or d_cnt > 30"
AnomalyThreshold == 30
\* "current_dt - timedelta(days=7)"
WindowDays == 7
\* The separator of "%Y-%m-%d %H:%M:%S" (a space) and the separator of the
\* ISO form '2025-12-14T23:40' the dashboard also matches, as character codes.
SepSpace == 32
SepT == 84

\* ------------------------------------------------------------ input sets
\* Times of day a timestamp can carry: 0 is 00:00:00, 1 is 12:00:00.
Tods == {0, 1}
\* Days of the month the model uses; 1 and 8 are exactly seven days apart.
Days == {1, 8}

\* Timestamps the crawler writes: "2025-12-DD HH:00:00".
CrawlerTs == {<<d, SepSpace, t>> : d \in Days, t \in Tods}
\* A stored ISO-form timestamp of the same instant as <<8, SepSpace, 0>>.
IsoTs == {<<8, SepT, 0>>}
\* Two texts that are no timestamp: one sorting below every digit string
\* (such as "(none)"), one sorting above (such as "unknown").
BadLo == <<0>>
BadHi == <<99>>
MalformedTs == {BadLo, BadHi}
LegacyTs == IsoTs \cup MalformedTs
TsValues == CrawlerTs \cup LegacyTs

\* No row of the change-log table is selected.
NoRow == -1

\* None, for the variables that hold no timestamp yet.
NoTs == <<>>

Realtors == {"R1", "R2"}
\* The default of dict.get(id, "알수없음").
UnknownRealtor == "Unknown"

\* What one scrape can return: the ids lo..hi in ascending order, every
\* listing of realtor R1, or (split) odd ids of R1 and even ids of R2.
\* The sizes put 30 and 31 ids between two snapshots; the kind with hi < lo
\* is a scrape that observed no listing.
ListingKinds ==
  { [lo |-> 1, hi |-> 0,  split |-> FALSE],
    [lo |-> 1, hi |-> 1,  split |-> FALSE],
    [lo |-> 1, hi |-> 31, split |-> TRUE],
    [lo |-> 2, hi |-> 32, split |-> FALSE] }

\* The listing of the batch stored before the crawler's format was in use.
LegacyKinds == { [lo |-> 1, hi |-> 31, split |-> TRUE] }

\* ------------------------------------------------------ text and datetime
\* Python's str < str, on the field sequences.
RECURSIVE StrLess(_, _)
StrLess(a, b) ==
  IF a = <<>> THEN b # <<>>
  ELSE IF b = <<>> THEN FALSE
  ELSE IF Head(a) < Head(b) THEN TRUE
  ELSE IF Head(a) > Head(b) THEN FALSE
  ELSE StrLess(Tail(a), Tail(b))

StrLeq(a, b) == a = b \/ StrLess(a, b)

\* pd.to_datetime(ts) succeeds: both separators are accepted.
Parseable(ts) == Len(ts) = 3 /\ ts[2] \in {SepSpace, SepT}

\* pd.to_datetime(ts), as the number of half days since the start of the month.
ToDatetime(ts) == ts[1] * Cardinality(Tods) + ts[3]

\* timedelta(days=7), in half days.
WindowLength == WindowDays * Cardinality(Tods)

\* get_timestamp_str(): the clock reading formatted "%Y-%m-%d %H:%M:%S".
get_timestamp_str(now) == <<now \div Cardinality(Tods), SepSpace, now % Cardinality(Tods)>>

\* ---------------------------------------------------------------- helpers
Max(S) == CHOOSE x \in S : \A y \in S : y <= x
Min(S) == CHOOSE x \in S : \A y \in S : x <= y

\* sorted(S): ascending in Python's string order.
RECURSIVE SortedAsc(_)
SortedAsc(S) ==
  IF S = {} THEN <<>>
  ELSE LET m == CHOOSE x \in S : \A y \in S : StrLeq(x, y)
       IN <<m>> \o SortedAsc(S \ {m})

Reverse(s) == [k \in 1..Len(s) |-> s[Len(s) + 1 - k]]

\* list.index(x): the first position of x, 0 for ValueError.
IndexOf(s, x) ==
  IF \E k \in 1..Len(s) : s[k] = x
  THEN Min({k \in 1..Len(s) : s[k] = x})
  ELSE 0

\* df['timestamp'].unique()
TimestampsOf(rows) == {rows[k].timestamp : k \in 1..Len(rows)}

\* df[df['timestamp'] == ts]
RowsAt(rows, ts) == SelectSeq(rows, LAMBDA r : r.timestamp = ts)

\* set(snapshot['articleNo'])
IdSet(rows) == {rows[k].articleNo : k \in 1..Len(rows)}

\* dict(zip(group['articleNo'], group['realtorName'])): a later row of an id
\* overwrites an earlier one.
ZipDict(rows) ==
  [id \in IdSet(rows) |->
     rows[Max({k \in 1..Len(rows) : rows[k].articleNo = id})].realtorName]

\* dict.get(key, default)
Get(d, key, default) == IF key \in DOMAIN d THEN d[key] ELSE default

EmptyDict == [x \in {} |-> 0]

\* ------------------------------------------------------------------ state
VARIABLES
  table,              \* rows of listings_<cid>, in insertion order
  clock,              \* the wall clock reading of the latest scrape
  pc,                 \* where the dashboard script run is
  df,                 \* the rows the script run loaded
  unique_timestamps,  \* sorted(df['timestamp'].unique(), reverse=True)
  key_suffix,         \* which view render_dashboard_view is rendering
  current_ts,         \* its current_ts argument
  count_diff, new_ids, deleted_ids,   \* the per-snapshot metrics
  sorted_ts, ts_data_map,             \* the weekly aggregation loop
  i, prev_ts, prev_items,
  cum_new_count, cum_del_count,
  realtor_new_counts, realtor_del_counts,
  change_events, debug_logs,
  log_disp_df,        \* the change-log table as displayed
  sel_row_idx,        \* the selected display row, NoRow for none
  selected_event      \* <<the event whose detail is shown>>, <<>> for none

storeVars == <<table, clock>>
loadVars == <<df, unique_timestamps>>
metricVars == <<count_diff, new_ids, deleted_ids>>
accVars == <<cum_new_count, cum_del_count, realtor_new_counts,
             realtor_del_counts, change_events>>
loopVars == <<sorted_ts, ts_data_map, i, prev_ts, prev_items, debug_logs>>
logVars == <<log_disp_df, sel_row_idx, selected_event>>
viewVars == <<key_suffix, current_ts, metricVars, loopVars, accVars, logVars>>
dashVars == <<storeVars, pc, loadVars, viewVars>>

\* A call of load_data and the script's handling of its result, with the
\* rows of the table counted rather than listed.
VARIABLES
  IS_SUPABASE_READY,  \* utils.py: the client was created from the secrets
  stored,             \* the number of rows of listings_<cid>
  masked,             \* every stored row matches the data-cleaning mask
  load_pc,            \* where the call and the script are
  current_start,      \* the pagination loop's offset
  all_data,           \* the number of rows the loop has collected
  pagination_error,   \* a page request raised
  data,               \* the number of rows load_data returned
  filtered_df         \* the number of rows left after data cleaning

loadFnVars == <<IS_SUPABASE_READY, stored, masked, load_pc, current_start,
                all_data, pagination_error, data, filtered_df>>

\* One application of get_area_type.
VARIABLES
  size,               \* the argument, a listing's spc2
  area_type           \* the returned band label, "" before the call

areaVars == <<size, area_type>>

\* The lowest-price section of render_dashboard_view, on one snapshot.
VARIABLES
  snapshot_rows,        \* the snapshot's rows, with the 'type' column
  lowest_list,        \* the cheapest representative of each band, or "unset"
  full_lowest_df,     \* pd.concat(all_lowest_rows), or "unset"
  f_lowest            \* full_lowest_df as displayed, or "unset"

lowestVars == <<snapshot_rows, lowest_list, full_lowest_df, f_lowest>>

\* One or more calls of NaverLandCrawler.fetch_listings, page by page.
VARIABLES
  wall,               \* the wall clock
  crawl_pc,           \* where the call is
  batch_timestamp,    \* "batch_timestamp = get_timestamp_str()"
  page,               \* the page requested next
  all_articles,       \* the rows mapped so far
  calls               \* what each finished call returned, with its stamp

crawlVars == <<wall, crawl_pc, batch_timestamp, page, all_articles, calls>>

\* ---- state of the background scheduler (svrapp.py, BackgroundScheduler) ----------
\* Time is counted in ticks of half a minute.  Only the clock's position inside
\* the common period of the intervals is kept, and next_run_time is kept as its
\* distance from the clock (0 when due), so "now >= self.next_run_time" reads
\* next_run_time = 0 and the scheduler can run for ever in a finite state space.
VARIABLES
  sched_now,          \* time.time(), as its position in the common period
  is_running,         \* self.is_running
  interval_minutes,   \* self.interval_minutes
  target_complex_ids, \* self.target_complex_ids
  trade_type,         \* self.trade_type
  last_run_time,      \* self.last_run_time: FALSE for 0, TRUE for a completion time
  next_run_time,      \* self.next_run_time - time.time(), never below 0
  thread,             \* self._thread: NoThread or the thread it refers to
  threads,            \* the threads that run _loop (none of them ever returns)
  lock,               \* self._lock: NoCaller or the caller that holds it
  status_msg,         \* self.status_msg
  call_pc,            \* per caller: where it is in start() or stop()
  call_args,          \* per caller: the arguments of the call it is in
  loop_pc,            \* per thread: where it is in _loop
  loop_ids,           \* per thread: the list object "for cid in ..." iterates
  loop_idx,           \* per thread: the position of the iteration
  interval_sec,       \* per thread: the local interval_sec
  task,               \* per thread: the arguments of the run_collection_task it is in
  fresh_start,        \* history: the arguments of the start() that last scheduled
                      \* a first run, until a batch begins or another call is made
  batch_start         \* history, per thread: fresh_start when its batch began

schedVars == <<sched_now, is_running, interval_minutes, target_complex_ids,
               trade_type, last_run_time, next_run_time, thread, threads, lock,
               status_msg, call_pc, call_args, loop_pc, loop_ids, loop_idx,
               interval_sec, task, fresh_start, batch_start>>

\* The variables the dashboard run of Spec leaves alone.
sideVars == <<loadFnVars, areaVars, lowestVars, crawlVars, schedVars>>

\* The variables each of the other specifications leaves alone.
notLoadVars == <<dashVars, areaVars, lowestVars, crawlVars, schedVars>>
notAreaVars == <<dashVars, loadFnVars, lowestVars, crawlVars, schedVars>>
notLowestVars == <<dashVars, loadFnVars, areaVars, crawlVars, schedVars>>
notCrawlVars == <<dashVars, loadFnVars, areaVars, lowestVars, schedVars>>
notSchedVars == <<dashVars, loadFnVars, areaVars, lowestVars, crawlVars>>

vars == <<dashVars, sideVars>>

\* ------------------------------------------------------------- collector
\* The rows fetch_listings builds from one response: one row per listing,
\* every row stamped with the same batch_timestamp.
fetch_listings(stamp, kind) ==
  [k \in 1..(kind.hi - kind.lo + 1) |->
     [timestamp |-> stamp,
      articleNo |-> kind.lo + k - 1,
      realtorName |-> IF kind.split /\ (kind.lo + k - 1) % 2 = 0
                      THEN "R2" ELSE "R1"]]

\* The number of batches in the table (a batch ends where the next row has
\* another timestamp or starts again at a lower id).
BatchCount(rows) ==
  Cardinality({k \in 1..Len(rows) :
     k = Len(rows) \/ rows[k + 1].timestamp # rows[k].timestamp
                   \/ rows[k + 1].articleNo <= rows[k].articleNo})

\* Clock readings the collector can see.
ClockReadings == {d * Cardinality(Tods) + t : d \in Days, t \in Tods}

\* run_collection_task(c_id, t_code): one scrape at clock reading `now`;
\* "if new_data:" the batch is saved by save_data, which inserts it after
\* the rows already stored, else nothing is saved ("매물 없음 또는 API 오류").
Collect(now, kind) ==
  /\ pc = "idle"
  /\ now >= clock
  /\ BatchCount(table) < MaxBatches
  /\ LET new_data == fetch_listings(get_timestamp_str(now), kind)
     IN table' = IF new_data # <<>> THEN table \o new_data ELSE table
  /\ clock' = now
  /\ UNCHANGED <<pc, loadVars, viewVars, sideVars>>

\* --------------------------------------------------------------- dashboard
\* load_data(): every row of the table, ".order('timestamp', desc=True)";
\* rows of one timestamp stay in insertion order.
load_data(rows) ==
  LET RECURSIVE Concat(_)
      Concat(tss) == IF tss = <<>> THEN <<>>
                     ELSE RowsAt(rows, Head(tss)) \o Concat(Tail(tss))
  IN Concat(Reverse(SortedAsc(TimestampsOf(rows))))

\* sorted(filtered_df['timestamp'].unique(), reverse=True)
UniqueTimestamps(rows) == Reverse(SortedAsc(TimestampsOf(rows)))

\* The script run starts: "data = load_data(...)", "if not data: st.stop()",
\* then unique_timestamps.  (The data-cleaning mask of lines 93-105 drops rows
\* of two fixed timestamps of 2025-12-14/15, none of which is in TsValues.)
LoadData ==
  /\ pc = "idle"
  /\ table # <<>>
  /\ df' = load_data(table)
  /\ unique_timestamps' = UniqueTimestamps(load_data(table))
  /\ pc' = "tab1"
  /\ UNCHANGED <<storeVars, viewVars, sideVars>>

\* InWindow with the boundary included.
InWindow_Inclusive(curr_ts, ref_ts) ==
  ToDatetime(curr_ts) >= ToDatetime(ref_ts) - WindowLength

\* "curr_dt > seven_days_ago"
InWindow(curr_ts, ref_ts) ==
  ToDatetime(curr_ts) > ToDatetime(ref_ts) - WindowLength

\* IsAnomaly with "and" for "or".
IsAnomaly_Both(n_cnt, d_cnt) == n_cnt > AnomalyThreshold /\ d_cnt > AnomalyThreshold

\* IsAnomaly with ">=" for ">".
IsAnomaly_Inclusive(n_cnt, d_cnt) == n_cnt >= AnomalyThreshold \/ d_cnt >= AnomalyThreshold

\* "if n_cnt > 30 or d_cnt > 30"
IsAnomaly(n_cnt, d_cnt) == n_cnt > AnomalyThreshold \/ d_cnt > AnomalyThreshold

\* PrevOf with "curr_idx - 1" for "curr_idx + 1"; Python's index -1 is the
\* last element.
PrevOf_Newer(all_timestamps, ts) ==
  LET curr_idx == IndexOf(all_timestamps, ts)
  IN IF curr_idx = 0 THEN NoTs
     ELSE IF curr_idx - 1 >= 1
          THEN all_timestamps[curr_idx - 1]
          ELSE all_timestamps[Len(all_timestamps)]

\* The previous timestamp of the per-snapshot metrics: all_timestamps at
\* index(current_ts) + 1, NoTs when there is none or current_ts is not found.
PrevOf(all_timestamps, ts) ==
  LET curr_idx == IndexOf(all_timestamps, ts)
  IN IF curr_idx = 0 THEN NoTs
     ELSE IF curr_idx + 1 <= Len(all_timestamps)
          THEN all_timestamps[curr_idx + 1]
          ELSE NoTs

\* NewIds with the weekly loop's anomaly filter applied to the per-snapshot
\* view as well.
NewIds_Filtered(curr_rows, prev_rows) ==
  IF Cardinality(IdSet(curr_rows) \ IdSet(prev_rows)) > AnomalyThreshold
  THEN {}
  ELSE IdSet(curr_rows) \ IdSet(prev_rows)

\* "new_ids = set(snapshot_df['articleNo']) - set(prev_snapshot_df['articleNo'])"
NewIds(curr_rows, prev_rows) == IdSet(curr_rows) \ IdSet(prev_rows)
\* DeletedIds as the symmetric difference of the two id sets.
DeletedIds_Symmetric(curr_rows, prev_rows) ==
  (IdSet(prev_rows) \ IdSet(curr_rows)) \cup (IdSet(curr_rows) \ IdSet(prev_rows))

\* "deleted_ids = set(prev_snapshot_df['articleNo']) - set(snapshot_df['articleNo'])"
DeletedIds(curr_rows, prev_rows) == IdSet(prev_rows) \ IdSet(curr_rows)
\* "count_diff = len(snapshot_df) - len(prev_snapshot_df)"
CountDiff(curr_rows, prev_rows) == Len(curr_rows) - Len(prev_rows)

\* "history_up_to_now = view_df[view_df['timestamp'] <= current_ts]"
HistoryUpTo(view_df, ts) == SelectSeq(view_df, LAMBDA r : StrLeq(r.timestamp, ts))

\* "ts_data_map[ts] = dict(zip(group['articleNo'], group['realtorName']))"
TsDataMap(history) ==
  [ts \in TimestampsOf(history) |-> ZipDict(RowsAt(history, ts))]

\* render_dashboard_view(view_df, ts, all_timestamps, key_suffix) up to the
\* start of the weekly loop: the per-snapshot metrics, then the loop's setup.
\* pd.to_datetime(current_ts) raises on a text that is no timestamp.
BeginRender(view_df, ts, all_timestamps, suffix) ==
  /\ key_suffix' = suffix
  /\ current_ts' = ts
  /\ log_disp_df' = <<>>
  /\ sel_row_idx' = NoRow
  /\ selected_event' = <<>>
  /\ IF ~Parseable(ts)
     THEN /\ pc' = "error"
          /\ UNCHANGED <<metricVars, loopVars, accVars>>
     ELSE LET snapshot_df == RowsAt(view_df, ts)
              p_ts == PrevOf(all_timestamps, ts)
              prev_snapshot_df == RowsAt(view_df, p_ts)
              history_up_to_now == HistoryUpTo(view_df, ts)
              s_ts == SortedAsc(TimestampsOf(history_up_to_now))
          IN /\ count_diff' = IF p_ts = NoTs THEN 0
                              ELSE CountDiff(snapshot_df, prev_snapshot_df)
             /\ new_ids' = IF p_ts = NoTs THEN {}
                           ELSE NewIds(snapshot_df, prev_snapshot_df)
             /\ deleted_ids' = IF p_ts = NoTs THEN {}
                               ELSE DeletedIds(snapshot_df, prev_snapshot_df)
             /\ sorted_ts' = s_ts
             /\ cum_new_count' = 0
             /\ cum_del_count' = 0
             /\ realtor_new_counts' = EmptyDict
             /\ realtor_del_counts' = EmptyDict
             /\ change_events' = <<>>
             /\ debug_logs' = <<>>
             /\ IF Len(s_ts) > 1
                THEN /\ ts_data_map' = TsDataMap(history_up_to_now)
                     /\ prev_ts' = s_ts[1]
                     /\ prev_items' = TsDataMap(history_up_to_now)[s_ts[1]]
                ELSE /\ ts_data_map' = EmptyDict
                     /\ prev_ts' = NoTs
                     /\ prev_items' = EmptyDict
             /\ i' = 2
             /\ pc' = "loop"

\* tab1: "latest_ts = unique_timestamps[0]".
RenderLatest ==
  /\ pc = "tab1"
  /\ unique_timestamps # <<>>
  /\ BeginRender(df, unique_timestamps[1], unique_timestamps, "latest")
  /\ UNCHANGED <<storeVars, loadVars, sideVars>>

\* NewRealtor looking the appeared id up in the previous snapshot.
NewRealtor_FromPrev(curr_items, p_items, nid) == Get(p_items, nid, UnknownRealtor)

\* "r_name = curr_items.get(nid, "알수없음")"
NewRealtor(curr_items, p_items, nid) == Get(curr_items, nid, UnknownRealtor)
\* "r_name = prev_items.get(did, "알수없음")"
DelRealtor(curr_items, p_items, did) == Get(p_items, did, UnknownRealtor)

\* AddCounts adding one per realtor of the step instead of one per id.
AddCounts_OncePerRealtor(counts, r_names) ==
  [r \in (DOMAIN counts) \cup {r_names[id] : id \in DOMAIN r_names} |->
     Get(counts, r, 0) + (IF \E id \in DOMAIN r_names : r_names[id] = r THEN 1 ELSE 0)]

\* "counts[r_name] = counts.get(r_name, 0) + 1" for every id, where
\* r_names[id] is the r_name looked up for the id.
AddCounts(counts, r_names) ==
  [r \in (DOMAIN counts) \cup {r_names[id] : id \in DOMAIN r_names} |->
     Get(counts, r, 0) + Cardinality({id \in DOMAIN r_names : r_names[id] = r})]

\* NewInStep with the operands exchanged.
NewInStep_Swapped(curr_items, p_items) == (DOMAIN p_items) \ (DOMAIN curr_items)

\* "new_in_step = curr_ids - prev_ids"
NewInStep(curr_items, p_items) == (DOMAIN curr_items) \ (DOMAIN p_items)
\* "del_in_step = prev_ids - curr_ids"
DelInStep(curr_items, p_items) == (DOMAIN p_items) \ (DOMAIN curr_items)

\* "display_ts": curr_dt.strftime("%m월 %d일 %H:%M"), the day and time of day.
DisplayTs(ts) == <<ts[1], ts[3]>>

\* One iteration of "for i in range(1, len(sorted_ts))".
LoopStep ==
  /\ pc = "loop"
  /\ i <= Len(sorted_ts)
  /\ LET curr_ts == sorted_ts[i]
     IN IF ~Parseable(curr_ts)
        THEN /\ pc' = "error"
             /\ UNCHANGED <<loopVars, accVars>>
        ELSE
          LET curr_items == ts_data_map[curr_ts]
              new_in_step == NewInStep(curr_items, prev_items)
              del_in_step == DelInStep(curr_items, prev_items)
              n_cnt == Cardinality(new_in_step)
              d_cnt == Cardinality(del_in_step)
              changed == new_in_step # {} \/ del_in_step # {}
              counted == /\ InWindow(curr_ts, current_ts)
                         /\ changed
                         /\ ~IsAnomaly(n_cnt, d_cnt)
              skipped == /\ InWindow(curr_ts, current_ts)
                         /\ changed
                         /\ IsAnomaly(n_cnt, d_cnt)
          IN /\ IF counted
                THEN /\ cum_new_count' = cum_new_count + n_cnt
                     /\ cum_del_count' = cum_del_count + d_cnt
                     /\ change_events' = Append(change_events,
                          [timestamp |-> curr_ts,
                           prev_timestamp |-> prev_ts,
                           new_count |-> n_cnt,
                           del_count |-> d_cnt,
                           new_ids |-> new_in_step,
                           del_ids |-> del_in_step,
                           display_ts |-> DisplayTs(curr_ts)])
                     /\ realtor_new_counts' =
                          AddCounts(realtor_new_counts,
                            [nid \in new_in_step |-> NewRealtor(curr_items, prev_items, nid)])
                     /\ realtor_del_counts' =
                          AddCounts(realtor_del_counts,
                            [did \in del_in_step |-> DelRealtor(curr_items, prev_items, did)])
                ELSE UNCHANGED accVars
             /\ debug_logs' =
                  IF skipped
                  THEN Append(debug_logs, [timestamp |-> curr_ts, skipped |-> TRUE,
                                           new |-> n_cnt, del |-> d_cnt])
                  ELSE IF counted
                  THEN Append(debug_logs, [timestamp |-> curr_ts, skipped |-> FALSE,
                                           new |-> n_cnt, del |-> d_cnt])
                  ELSE debug_logs
             /\ prev_ts' = curr_ts
             /\ prev_items' = curr_items
             /\ i' = i + 1
             /\ pc' = "loop"
             /\ UNCHANGED <<sorted_ts, ts_data_map>>
  /\ UNCHANGED <<storeVars, loadVars, key_suffix, current_ts, metricVars, logVars,
                 sideVars>>

\* "log_disp_df = log_df[['display_ts', 'new_count', 'del_count']]" and
\* "log_disp_df.iloc[::-1].reset_index(drop=True)"
LogDisp(events) ==
  Reverse([k \in 1..Len(events) |->
             [display_ts |-> events[k].display_ts,
              new_count |-> events[k].new_count,
              del_count |-> events[k].del_count]])

\* "actual_idx = len(change_events) - 1 - sel_row_idx"
ActualIdx(events, row) == Len(events) - 1 - row

\* Row selections tried: none, or one of the first rows.
SelRows == {NoRow} \cup (0..(MaxBatches - 2))

\* The rows the user can have selected in the displayed table.
RowChoices(events) == {NoRow} \cup {k - 1 : k \in 1..Len(events)}

\* The loop is over and the rest of the view is drawn: "if change_events:"
\* the change log is shown newest first and, with display row sel selected,
\* the detail of change_events[actual_idx].  The script goes on to tab2
\* after the latest view and ends after the history view.
FinishRender(sel) ==
  /\ pc = "loop"
  /\ i > Len(sorted_ts)
  /\ sel \in RowChoices(change_events)
  /\ log_disp_df' = LogDisp(change_events)
  /\ sel_row_idx' = sel
  /\ selected_event' =
       IF sel = NoRow THEN <<>>
       ELSE <<change_events[ActualIdx(change_events, sel) + 1]>>
  /\ pc' = IF key_suffix = "latest" THEN "tab2" ELSE "end"
  /\ UNCHANGED <<storeVars, loadVars, key_suffix, current_ts, metricVars,
                 loopVars, accVars, sideVars>>

\* tab2: valid_pairs keeps the timestamps pd.to_datetime(errors='coerce')
\* converts; the date and time-slot selectors pick one day and HH:MM, and
\* matched_ts is the first pair of that time in unique_timestamps order.
ValidPairs(all_timestamps) ==
  {k \in 1..Len(all_timestamps) : Parseable(all_timestamps[k])}

MatchedTs(all_timestamps, dt) ==
  LET hits == {k \in ValidPairs(all_timestamps) : ToDatetime(all_timestamps[k]) = dt}
  IN IF hits = {} THEN NoTs ELSE all_timestamps[Min(hits)]

\* A date and slot with data is selected: the history view is rendered.
RenderHistory(dt) ==
  /\ pc = "tab2"
  /\ MatchedTs(unique_timestamps, dt) # NoTs
  /\ BeginRender(df, MatchedTs(unique_timestamps, dt), unique_timestamps, "history")
  /\ UNCHANGED <<storeVars, loadVars, sideVars>>

\* No valid pair, or a slot with no data is selected: nothing is rendered.
HistoryNoData ==
  /\ pc = "tab2"
  /\ \E dt \in ClockReadings : MatchedTs(unique_timestamps, dt) = NoTs
  /\ pc' = "end"
  /\ UNCHANGED <<storeVars, loadVars, viewVars, sideVars>>

\* The script run is over (or was aborted by an exception); the next rerun
\* starts from scratch.
Rerun ==
  /\ pc \in {"end", "error"}
  /\ pc' = "idle"
  /\ df' = <<>>
  /\ unique_timestamps' = <<>>
  /\ key_suffix' = ""
  /\ current_ts' = NoTs
  /\ count_diff' = 0
  /\ new_ids' = {}
  /\ deleted_ids' = {}
  /\ sorted_ts' = <<>>
  /\ ts_data_map' = EmptyDict
  /\ i' = 0
  /\ prev_ts' = NoTs
  /\ prev_items' = EmptyDict
  /\ cum_new_count' = 0
  /\ cum_del_count' = 0
  /\ realtor_new_counts' = EmptyDict
  /\ realtor_del_counts' = EmptyDict
  /\ change_events' = <<>>
  /\ debug_logs' = <<>>
  /\ log_disp_df' = <<>>
  /\ sel_row_idx' = NoRow
  /\ selected_event' = <<>>
  /\ UNCHANGED <<storeVars, sideVars>>

\* No call of load_data is being followed.
LoadIdle ==
  /\ IS_SUPABASE_READY = TRUE
  /\ stored = 0
  /\ masked = FALSE
  /\ load_pc = "off"
  /\ current_start = 0
  /\ all_data = 0
  /\ pagination_error = FALSE
  /\ data = 0
  /\ filtered_df = 0

\* A size: a number in hundredths of a square metre, float('nan'), or a
\* value float() raises on (None, a text that is no number).
NumberSize(h) == [kind |-> "number", hundredths |-> h]
NanSize == [kind |-> "nan", hundredths |-> 0]
NoSize == [kind |-> "none", hundredths |-> 0]

\* No application of get_area_type is being followed.
AreaIdle ==
  /\ size = NoSize
  /\ area_type = ""

\* No lowest-price section is being followed.
LowestIdle ==
  /\ snapshot_rows = <<>>
  /\ lowest_list = "unset"
  /\ full_lowest_df = "unset"
  /\ f_lowest = "unset"

\* No call of fetch_listings is being followed.
CrawlIdle ==
  /\ wall = 0
  /\ crawl_pc = "off"
  /\ batch_timestamp = NoTs
  /\ page = 0
  /\ all_articles = <<>>
  /\ calls = <<>>

\* The scheduler as __init__ leaves it, with nobody calling it.
TicksPerMinute == 2
DefaultInterval == 30
MaxCallers == 2
MaxThreads == 2
Callers == 1..MaxCallers
ThreadIds == 1..MaxThreads
NoCaller == 0
NoThread == 0
NoArgs == <<>>

Constructed ==
  /\ is_running = FALSE
  /\ interval_minutes = DefaultInterval
  /\ target_complex_ids = <<"108064">>
  /\ trade_type = "A1"
  /\ last_run_time = FALSE
  /\ next_run_time = 0
  /\ thread = NoThread
  /\ threads = {}
  /\ lock = NoCaller
  /\ status_msg = "init"
  /\ loop_pc = [t \in ThreadIds |-> "none"]
  /\ loop_ids = [t \in ThreadIds |-> <<>>]
  /\ loop_idx = [t \in ThreadIds |-> 0]
  /\ interval_sec = [t \in ThreadIds |-> 0]
  /\ task = [t \in ThreadIds |-> NoArgs]
  /\ call_args = [c \in Callers |-> NoArgs]
  /\ fresh_start = NoArgs
  /\ batch_start = [t \in ThreadIds |-> NoArgs]

SchedIdle ==
  /\ Constructed
  /\ sched_now = 0
  /\ call_pc = [c \in Callers |-> "off"]

\* ----------------------------------------------------------- specification
\* The table starts empty or with one batch of rows written before the
\* crawler's format was in use (migrated data).
Init ==
  /\ table \in {<<>>} \cup
       {fetch_listings(ts, kind) : ts \in LegacyTs, kind \in LegacyKinds}
  /\ clock = Min(ClockReadings)
  /\ pc = "idle"
  /\ df = <<>>
  /\ unique_timestamps = <<>>
  /\ key_suffix = ""
  /\ current_ts = NoTs
  /\ count_diff = 0
  /\ new_ids = {}
  /\ deleted_ids = {}
  /\ sorted_ts = <<>>
  /\ ts_data_map = EmptyDict
  /\ i = 0
  /\ prev_ts = NoTs
  /\ prev_items = EmptyDict
  /\ cum_new_count = 0
  /\ cum_del_count = 0
  /\ realtor_new_counts = EmptyDict
  /\ realtor_del_counts = EmptyDict
  /\ change_events = <<>>
  /\ debug_logs = <<>>
  /\ log_disp_df = <<>>
  /\ sel_row_idx = NoRow
  /\ selected_event = <<>>
  /\ LoadIdle
  /\ AreaIdle
  /\ LowestIdle
  /\ CrawlIdle
  /\ SchedIdle

Next ==
  \/ \E now \in ClockReadings, kind \in ListingKinds : Collect(now, kind)
  \/ LoadData
  \/ RenderLatest
  \/ LoopStep
  \/ \E sel \in SelRows : FinishRender(sel)
  \/ \E dt \in ClockReadings : RenderHistory(dt)
  \/ HistoryNoData
  \/ Rerun

Spec == Init /\ [][Next]_vars

\* No dashboard run is being followed: the state of Spec before any scrape.
DashIdle ==
  /\ table = <<>>
  /\ clock = Min(ClockReadings)
  /\ pc = "idle"
  /\ df = <<>>
  /\ unique_timestamps = <<>>
  /\ key_suffix = ""
  /\ current_ts = NoTs
  /\ count_diff = 0
  /\ new_ids = {}
  /\ deleted_ids = {}
  /\ sorted_ts = <<>>
  /\ ts_data_map = EmptyDict
  /\ i = 0
  /\ prev_ts = NoTs
  /\ prev_items = EmptyDict
  /\ cum_new_count = 0
  /\ cum_del_count = 0
  /\ realtor_new_counts = EmptyDict
  /\ realtor_del_counts = EmptyDict
  /\ change_events = <<>>
  /\ debug_logs = <<>>
  /\ log_disp_df = <<>>
  /\ sel_row_idx = NoRow
  /\ selected_event = <<>>

\* ------------------------------------------------- load_data and its caller
\* The largest number of stored rows: two full pages and one more row.
MaxStored == 2001

\* "rows_per_batch = 1000"
rows_per_batch == 1000
\* "max_limit = 50000 # Safety hard cap"
max_limit == 50000

\* The number of rows ".range(current_start, current_end)" returns of a
\* table of n rows.
PageLen(n, start) == Max({0, Min({n - start, rows_per_batch})})

\* app.py's sidebar check: without a Supabase client the script stops
\* before it loads anything.
AppNotReady ==
  /\ load_pc = "start"
  /\ ~IS_SUPABASE_READY
  /\ load_pc' = "stopped"
  /\ UNCHANGED <<IS_SUPABASE_READY, stored, masked, current_start, all_data,
                 pagination_error, data, filtered_df, notLoadVars>>

\* load_data is called (app.py:84, svrapp.py:294): "if not
\* IS_SUPABASE_READY: return []", else the pagination loop starts.
LoadEnter ==
  /\ load_pc = "start"
  /\ IF ~IS_SUPABASE_READY
     THEN /\ data' = 0
          /\ load_pc' = "returned"
     ELSE /\ data' = data
          /\ load_pc' = "paging"
  /\ current_start' = 0
  /\ all_data' = 0
  /\ UNCHANGED <<IS_SUPABASE_READY, stored, masked, pagination_error,
                 filtered_df, notLoadVars>>

\* One iteration of "while True": the page request succeeds (ok) or raises;
\* "except Exception as loop_e: ... break" leaves the loop with the rows
\* collected so far, and "return all_data" returns them.
FetchPage(ok) ==
  /\ load_pc = "paging"
  /\ IF ~ok
     THEN /\ pagination_error' = TRUE
          /\ data' = all_data
          /\ load_pc' = "returned"
          /\ UNCHANGED <<all_data, current_start>>
     ELSE LET response == PageLen(stored, current_start)
          IN /\ pagination_error' = pagination_error
             /\ IF response = 0
                THEN /\ data' = all_data
                     /\ load_pc' = "returned"
                     /\ UNCHANGED <<all_data, current_start>>
                ELSE /\ all_data' = all_data + response
                     /\ IF response < rows_per_batch
                        THEN /\ data' = all_data + response
                             /\ load_pc' = "returned"
                             /\ UNCHANGED current_start
                        ELSE /\ current_start' = current_start + rows_per_batch
                             /\ IF all_data + response >= max_limit
                                THEN /\ data' = all_data + response
                                     /\ load_pc' = "returned"
                                ELSE /\ data' = data
                                     /\ load_pc' = "paging"
  /\ UNCHANGED <<IS_SUPABASE_READY, stored, masked, filtered_df, notLoadVars>>

\* app.py:86-105: "if not data: st.warning(...); st.stop()", else the data
\* cleaning drops the rows the mask matches.
Gate ==
  /\ load_pc = "returned"
  /\ IF data = 0
     THEN /\ load_pc' = "stopped"
          /\ filtered_df' = filtered_df
     ELSE /\ load_pc' = "tabs"
          /\ filtered_df' = IF masked THEN 0 ELSE data
  /\ UNCHANGED <<IS_SUPABASE_READY, stored, masked, current_start, all_data,
                 pagination_error, data, notLoadVars>>

\* tab1: "if unique_timestamps:" render_dashboard_view is called with the
\* latest timestamp, else a warning is shown.  unique_timestamps is empty
\* iff filtered_df has no row.
Tab1 ==
  /\ load_pc = "tabs"
  /\ load_pc' = IF filtered_df > 0 THEN "render" ELSE "warning"
  /\ UNCHANGED <<IS_SUPABASE_READY, stored, masked, current_start, all_data,
                 pagination_error, data, filtered_df, notLoadVars>>

InitLoad ==
  /\ DashIdle
  /\ AreaIdle
  /\ LowestIdle
  /\ CrawlIdle
  /\ SchedIdle
  /\ IS_SUPABASE_READY \in BOOLEAN
  /\ stored \in 0..MaxStored
  /\ masked \in BOOLEAN
  /\ load_pc = "start"
  /\ current_start = 0
  /\ all_data = 0
  /\ pagination_error = FALSE
  /\ data = 0
  /\ filtered_df = 0

NextLoad ==
  \/ AppNotReady
  \/ LoadEnter
  \/ \E ok \in BOOLEAN : FetchPage(ok)
  \/ Gate
  \/ Tab1

SpecLoad == InitLoad /\ [][NextLoad]_vars

\* ----------------------------------------------------------- get_area_type
\* The sizes tried: every hundredth from below zero to above the last band.
MinSize == -100
MaxSize == 20100
Sizes == {NumberSize(h) : h \in MinSize..MaxSize} \cup {NanSize, NoSize}

\* n square metres in hundredths.
Hundredths(n) == n * 100

\* '기타' (other), the label of sizes outside the five bands.
Other == "other"

\* get_area_type with "<=" for "<" at the upper end of every band.
get_area_type_UpperInclusive(sz) ==
  IF sz.kind # "number" THEN Other
  ELSE LET s == sz.hundredths
       IN IF Hundredths(50) <= s /\ s <= Hundredths(70) THEN "59"
          ELSE IF Hundredths(70) <= s /\ s <= Hundredths(100) THEN "84"
          ELSE IF Hundredths(100) <= s /\ s <= Hundredths(135) THEN "120"
          ELSE IF Hundredths(135) <= s /\ s <= Hundredths(165) THEN "152"
          ELSE IF Hundredths(165) <= s /\ s <= Hundredths(200) THEN "175"
          ELSE Other

\* get_area_type(size): "s = float(size)" raises on None and on a text that
\* is no number, and the bare "except" returns '기타'; every comparison with
\* nan is false, so nan falls to the final "else".
get_area_type(sz) ==
  IF sz.kind # "number" THEN Other
  ELSE LET s == sz.hundredths
       IN IF Hundredths(50) <= s /\ s < Hundredths(70) THEN "59"
          ELSE IF Hundredths(70) <= s /\ s < Hundredths(100) THEN "84"
          ELSE IF Hundredths(100) <= s /\ s < Hundredths(135) THEN "120"
          ELSE IF Hundredths(135) <= s /\ s < Hundredths(165) THEN "152"
          ELSE IF Hundredths(165) <= s /\ s < Hundredths(200) THEN "175"
          ELSE Other

\* "snapshot_df['type'] = snapshot_df['spc2'].apply(get_area_type)", for one
\* listing.
Classify ==
  /\ area_type = ""
  /\ area_type' = get_area_type(size)
  /\ UNCHANGED <<size, notAreaVars>>

InitArea ==
  /\ DashIdle
  /\ LoadIdle
  /\ LowestIdle
  /\ CrawlIdle
  /\ SchedIdle
  /\ size \in Sizes
  /\ area_type = ""

NextArea == Classify

SpecArea == InitArea /\ [][NextArea]_vars

\* ------------------------------------------------------ lowest-price finder
\* The largest snapshot tried.
MaxSnapshotRows == 3

\* The listings tried: one size in each band and one outside, at two prices
\* (price_int, in units of 100 million won).
ListingSizes ==
  {NumberSize(5984), NumberSize(8497), NumberSize(11400), NumberSize(15200),
   NumberSize(17500), NumberSize(4500)}
Prices == {5, 6}

\* target_types with '기타' added.
target_types_WithOther == <<"59", "84", "120", "152", "175", Other>>

\* "target_types = ['59', '84', '120', '152', '175']"
target_types == <<"59", "84", "120", "152", "175">>

\* The labels of target_types in Python's string order, for sort_values.
TypeOrder == <<"120", "152", "175", "59", "84">>

\* "snapshot_df['type'] = snapshot_df['spc2'].apply(get_area_type)"
WithType(rows) ==
  [k \in 1..Len(rows) |->
     [articleNo |-> rows[k].articleNo,
      spc2 |-> rows[k].spc2,
      price_int |-> rows[k].price_int,
      type |-> get_area_type(rows[k].spc2)]]

\* "type_df = snapshot_df[snapshot_df['type'] == t]"
TypeDf(rows, t) == SelectSeq(rows, LAMBDA r : r.type = t)

\* "min_price = type_df['price_int'].min()"
MinPrice(type_df) == Min({type_df[k].price_int : k \in 1..Len(type_df)})

\* "matches = type_df[type_df['price_int'] == min_price]"
Matches(type_df) == SelectSeq(type_df, LAMBDA r : r.price_int = MinPrice(type_df))

\* CheapestRep with ".iloc[-1]" for ".iloc[0]".
CheapestRep_Last(type_df) == Matches(type_df)[Len(Matches(type_df))]

\* "cheapest_rep = type_df[type_df['price_int'] == min_price].iloc[0]"
CheapestRep(type_df) == Matches(type_df)[1]

\* "for t in target_types: ... if not type_df.empty: lowest_list.append(...)"
RECURSIVE LowestList(_, _)
LowestList(rows, types) ==
  IF types = <<>> THEN <<>>
  ELSE LET type_df == TypeDf(rows, Head(types))
       IN (IF type_df = <<>> THEN <<>> ELSE <<CheapestRep(type_df)>>)
            \o LowestList(rows, Tail(types))

\* "for t in target_types: ... all_lowest_rows.append(matches)" and
\* "pd.concat(all_lowest_rows)"
RECURSIVE AllLowestRows(_, _)
AllLowestRows(rows, types) ==
  IF types = <<>> THEN <<>>
  ELSE LET type_df == TypeDf(rows, Head(types))
       IN (IF type_df = <<>> THEN <<>> ELSE Matches(type_df))
            \o AllLowestRows(rows, Tail(types))

\* "f_lowest.sort_values(['type', 'tradePrice'])": the rows of one type have
\* one price, so the order is the string order of the type labels, the rows
\* of a type staying in place.
RECURSIVE SortByType(_, _)
SortByType(rows, order) ==
  IF order = <<>> THEN <<>>
  ELSE TypeDf(rows, Head(order)) \o SortByType(rows, Tail(order))

\* app.py:246-283: "if not snapshot_df.empty:" both tables are computed;
\* for an empty snapshot neither is.
RenderLowest ==
  /\ lowest_list = "unset"
  /\ IF snapshot_rows # <<>>
     THEN /\ lowest_list' = LowestList(snapshot_rows, target_types)
          /\ full_lowest_df' = AllLowestRows(snapshot_rows, target_types)
          /\ f_lowest' = SortByType(AllLowestRows(snapshot_rows, target_types), TypeOrder)
     ELSE /\ lowest_list' = <<>>
          /\ full_lowest_df' = <<>>
          /\ f_lowest' = <<>>
  /\ UNCHANGED <<snapshot_rows, notLowestVars>>

InitLowest ==
  /\ DashIdle
  /\ LoadIdle
  /\ AreaIdle
  /\ CrawlIdle
  /\ SchedIdle
  /\ \E n \in 0..MaxSnapshotRows :
       \E sizes \in [1..n -> ListingSizes], prices \in [1..n -> Prices] :
          snapshot_rows = WithType([k \in 1..n |->
                           [articleNo |-> k, spc2 |-> sizes[k], price_int |-> prices[k]]])
  /\ lowest_list = "unset"
  /\ full_lowest_df = "unset"
  /\ f_lowest = "unset"

NextLowest == RenderLowest

SpecLowest == InitLowest /\ [][NextLowest]_vars

\* ------------------------------------------------------------ fetch_listings
\* The largest number of fetch_listings calls followed.
MaxCalls == 2

\* "if len(listings) < 20 or page >= 5"
PageFull == 20
PageLimit == 5

\* Wall clock readings during the calls: two seconds.
CrawlReadings == {Max(Days) * Cardinality(Tods) + t : t \in Tods}

\* The numbers of listings a page can hold.
PageSizes == {0, 3, PageFull}

\* What a page request can do: succeed; raise (timeout, HTTP error, bad
\* JSON); or succeed with a listing whose mapping raises (clean_price on a
\* price text int() rejects), after the listings before it were appended.
Outcomes == {"ok", "request_error", "item_error"}

\* The rows mapped from the first n listings of page p, each stamped stamp.
MappedItems(stamp, p, n) ==
  [k \in 1..n |-> [articleNo |-> (p - 1) * PageFull + k, timestamp |-> stamp]]

\* "batch_timestamp = get_timestamp_str()" before the page loop.
BeginFetch(now) ==
  /\ crawl_pc = "ready"
  /\ now >= wall
  /\ wall' = now
  /\ batch_timestamp' = get_timestamp_str(now)
  /\ page' = 1
  /\ all_articles' = <<>>
  /\ crawl_pc' = "paging"
  /\ UNCHANGED <<calls, notCrawlVars>>

\* One iteration of "while True" with the rows stamped stamp: the request of
\* page `page` returns n listings at wall clock reading now.
PageStep(stamp, n, outcome, now) ==
  /\ now >= wall
  /\ wall' = now
  /\ IF outcome = "request_error" \/ n = 0
     THEN /\ crawl_pc' = "returned"
          /\ UNCHANGED <<page, all_articles>>
     ELSE IF outcome = "item_error"
     THEN /\ all_articles' = all_articles \o MappedItems(stamp, page, n - 1)
          /\ crawl_pc' = "returned"
          /\ UNCHANGED page
     ELSE /\ all_articles' = all_articles \o MappedItems(stamp, page, n)
          /\ IF n < PageFull \/ page >= PageLimit
             THEN /\ crawl_pc' = "returned"
                  /\ UNCHANGED page
             ELSE /\ crawl_pc' = "paging"
                  /\ page' = page + 1
  /\ UNCHANGED <<batch_timestamp, calls, notCrawlVars>>

\* CrawlPage stamping the rows with the time of the page request.
CrawlPage_StampNow(n, outcome, now) ==
  /\ crawl_pc = "paging"
  /\ PageStep(get_timestamp_str(now), n, outcome, now)

\* One page of the loop: ""timestamp": batch_timestamp" on every row.
CrawlPage(n, outcome, now) ==
  /\ crawl_pc = "paging"
  /\ PageStep(batch_timestamp, n, outcome, now)

\* "return all_articles"; another call may follow.
EndFetch ==
  /\ crawl_pc = "returned"
  /\ calls' = Append(calls, [batch_timestamp |-> batch_timestamp,
                             all_articles |-> all_articles])
  /\ crawl_pc' = IF Len(calls) + 1 < MaxCalls THEN "ready" ELSE "done"
  /\ UNCHANGED <<wall, batch_timestamp, page, all_articles, notCrawlVars>>

InitCrawl ==
  /\ DashIdle
  /\ LoadIdle
  /\ AreaIdle
  /\ LowestIdle
  /\ SchedIdle
  /\ wall = Min(CrawlReadings)
  /\ crawl_pc = "ready"
  /\ batch_timestamp = NoTs
  /\ page = 0
  /\ all_articles = <<>>
  /\ calls = <<>>

NextCrawl ==
  \/ \E now \in CrawlReadings : BeginFetch(now)
  \/ \E n \in PageSizes, outcome \in Outcomes, now \in CrawlReadings :
        CrawlPage(n, outcome, now)
  \/ EndFetch

SpecCrawl == InitCrawl /\ [][NextCrawl]_vars

\* ============================================================ the scheduler
\* svrapp.py, BackgroundScheduler: start() and stop() are called from the
\* button callbacks of any browser session and run under self._lock; _loop runs
\* in a daemon thread and takes no lock, so each of its statements may fall
\* between any two statements of a start() or a stop().

\* The sidebar offers intervals of 1 to 1440 minutes, any non-empty selection of
\* complexes and three trade types; two such choices are enough to tell the
\* arguments of one call from those of another.
IntervalChoices == {1, 2}
StartArgs ==
  {[interval |-> 1, complex_ids |-> <<"108064">>, trade_type |-> "A1"],
   [interval |-> 2, complex_ids |-> <<"111515", "108064">>, trade_type |-> "B1"]}

\* The intervals all divide the longest one, which is the clock's period.
Period == TicksPerMinute * Max(IntervalChoices)

\* math.ceil(n / d) for naturals.
Ceil(n, d) == (n + d - 1) \div d

\* "math.ceil(time.time() / interval_sec) * interval_sec", as its distance
\* from the clock reading t.
NextRunIn_PlusInterval(t, sec) == sec
NextRunIn(t, sec) == Ceil(t, sec) * sec - t

\* "if self._thread is None or not self._thread.is_alive()".
ThreadNeeded_Always == TRUE
ThreadNeeded == thread = NoThread \/ thread \notin threads

callVars == <<call_pc, call_args, lock>>
fieldVars == <<is_running, interval_minutes, target_complex_ids, trade_type,
               last_run_time, next_run_time, status_msg>>
threadVars == <<thread, threads>>
loopLocals == <<loop_ids, loop_idx, interval_sec, task>>
historyVars == <<fresh_start, batch_start>>

\* A session calls start(interval, complex_ids, trade_type): it takes the lock
\* and assigns the interval.
StartCall(c, a) ==
  /\ call_pc[c] = "idle"
  /\ lock = NoCaller
  /\ lock' = c
  /\ call_args' = [call_args EXCEPT ![c] = <<a>>]
  /\ interval_minutes' = a.interval
  /\ call_pc' = [call_pc EXCEPT ![c] = "start_ids"]
  /\ fresh_start' = NoArgs
  /\ UNCHANGED <<sched_now, is_running, target_complex_ids, trade_type,
                 last_run_time, next_run_time, status_msg, threadVars, loop_pc,
                 loopLocals, batch_start, notSchedVars>>

\* The statements of start() after the first, one at a time.
StartStep(c) ==
  /\ lock = c
  /\ LET a == call_args[c][1]
         at(p) == call_pc[c] = p
         goto(p) == call_pc' = [call_pc EXCEPT ![c] = p]
         new == Cardinality(threads) + 1
     IN
     \/ /\ at("start_ids")
        /\ target_complex_ids' = a.complex_ids
        /\ goto("start_trade")
        /\ UNCHANGED <<is_running, interval_minutes, trade_type, last_run_time,
                       next_run_time, status_msg, threadVars, loop_pc, lock,
                       call_args, historyVars>>
     \/ /\ at("start_trade")
        /\ trade_type' = a.trade_type
        /\ goto("start_running")
        /\ UNCHANGED <<is_running, interval_minutes, target_complex_ids,
                       last_run_time, next_run_time, status_msg, threadVars,
                       loop_pc, lock, call_args, historyVars>>
     \/ /\ at("start_running")
        /\ is_running' = TRUE
        /\ goto("start_last")
        /\ UNCHANGED <<interval_minutes, target_complex_ids, trade_type,
                       last_run_time, next_run_time, status_msg, threadVars,
                       loop_pc, lock, call_args, historyVars>>
     \/ /\ at("start_last")
        /\ last_run_time' = FALSE
        /\ goto("start_next")
        /\ UNCHANGED <<is_running, interval_minutes, target_complex_ids,
                       trade_type, next_run_time, status_msg, threadVars,
                       loop_pc, lock, call_args, historyVars>>
     \/ /\ at("start_next")
        /\ next_run_time' = 0
        /\ goto("start_thread")
        /\ fresh_start' = <<a>>
        /\ UNCHANGED <<is_running, interval_minutes, target_complex_ids,
                       trade_type, last_run_time, status_msg, threadVars,
                       loop_pc, lock, call_args, batch_start>>
     \/ /\ at("start_thread")
        /\ IF ThreadNeeded /\ new <= MaxThreads
             THEN /\ thread' = new
                  /\ threads' = threads \cup {new}
                  /\ loop_pc' = [loop_pc EXCEPT ![new] = "if_running"]
             ELSE UNCHANGED <<threadVars, loop_pc>>
        /\ goto("start_msg")
        /\ UNCHANGED <<fieldVars, lock, call_args, historyVars>>
     \/ /\ at("start_msg")
        /\ status_msg' = "running"
        /\ lock' = NoCaller
        /\ call_args' = [call_args EXCEPT ![c] = NoArgs]
        /\ goto("idle")
        /\ UNCHANGED <<is_running, interval_minutes, target_complex_ids,
                       trade_type, last_run_time, next_run_time, threadVars,
                       loop_pc, historyVars>>
  /\ UNCHANGED <<sched_now, loopLocals, notSchedVars>>

\* A session calls stop(): it takes the lock and clears is_running.
StopCall(c) ==
  /\ call_pc[c] = "idle"
  /\ lock = NoCaller
  /\ lock' = c
  /\ is_running' = FALSE
  /\ call_pc' = [call_pc EXCEPT ![c] = "stop_msg"]
  /\ fresh_start' = NoArgs
  /\ UNCHANGED <<sched_now, interval_minutes, target_complex_ids, trade_type,
                 last_run_time, next_run_time, status_msg, threadVars, loop_pc,
                 loopLocals, call_args, batch_start, notSchedVars>>

\* The last statement of stop().
StopStep(c) ==
  /\ lock = c
  /\ call_pc[c] = "stop_msg"
  /\ status_msg' = "stopped"
  /\ lock' = NoCaller
  /\ call_pc' = [call_pc EXCEPT ![c] = "idle"]
  /\ UNCHANGED <<sched_now, is_running, interval_minutes, target_complex_ids,
                 trade_type, last_run_time, next_run_time, threadVars, loop_pc,
                 loopLocals, call_args, historyVars, notSchedVars>>

\* One statement of _loop in thread t.
LoopThread(t) ==
  /\ t \in threads
  /\ LET at(p) == loop_pc[t] = p
         goto(p) == loop_pc' = [loop_pc EXCEPT ![t] = p]
     IN
     \* "if self.is_running:"
     \/ /\ at("if_running")
        /\ goto(IF is_running THEN "if_due" ELSE "sleep")
        /\ UNCHANGED <<fieldVars, loopLocals, historyVars>>
     \* "now = time.time(); if now >= self.next_run_time:"
     \/ /\ at("if_due")
        /\ IF next_run_time = 0
             THEN /\ goto("collecting")
                  /\ batch_start' = [batch_start EXCEPT ![t] = fresh_start]
                  /\ fresh_start' = NoArgs
             ELSE /\ goto("sleep")
                  /\ UNCHANGED historyVars
        /\ UNCHANGED <<fieldVars, loopLocals>>
     \* "self.status_msg = '수집 실행 중...'"
     \/ /\ at("collecting")
        /\ status_msg' = "collecting"
        /\ goto("for_iter")
        /\ UNCHANGED <<is_running, interval_minutes, target_complex_ids,
                       trade_type, last_run_time, next_run_time, loopLocals,
                       historyVars>>
     \* "for cid in self.target_complex_ids:" takes the list it will walk
     \/ /\ at("for_iter")
        /\ loop_ids' = [loop_ids EXCEPT ![t] = target_complex_ids]
        /\ loop_idx' = [loop_idx EXCEPT ![t] = 1]
        /\ goto("for")
        /\ UNCHANGED <<fieldVars, interval_sec, task, historyVars>>
     \* "run_collection_task(cid, self.trade_type)" starts, or the walk is over
     \/ /\ at("for")
        /\ IF loop_idx[t] <= Len(loop_ids[t])
             THEN /\ task' = [task EXCEPT ![t] = <<[cid |-> loop_ids[t][loop_idx[t]],
                                                    trade_type |-> trade_type]>>]
                  /\ goto("task")
                  /\ UNCHANGED <<loop_ids, loop_idx, batch_start>>
             ELSE /\ goto("last_run")
                  /\ loop_ids' = [loop_ids EXCEPT ![t] = <<>>]
                  /\ loop_idx' = [loop_idx EXCEPT ![t] = 0]
                  /\ batch_start' = [batch_start EXCEPT ![t] = NoArgs]
                  /\ UNCHANGED task
        /\ UNCHANGED <<fieldVars, interval_sec, fresh_start>>
     \* the task returns; "time.sleep(1)"
     \/ /\ at("task")
        /\ task' = [task EXCEPT ![t] = NoArgs]
        /\ loop_idx' = [loop_idx EXCEPT ![t] = @ + 1]
        /\ goto("for")
        /\ UNCHANGED <<fieldVars, loop_ids, interval_sec, historyVars>>
     \* "self.last_run_time = time.time()"
     \/ /\ at("last_run")
        /\ last_run_time' = TRUE
        /\ goto("interval")
        /\ UNCHANGED <<is_running, interval_minutes, target_complex_ids,
                       trade_type, next_run_time, status_msg, loopLocals,
                       historyVars>>
     \* "interval_sec = self.interval_minutes * 60"
     \/ /\ at("interval")
        /\ interval_sec' = [interval_sec EXCEPT ![t] = interval_minutes * TicksPerMinute]
        /\ goto("next_run")
        /\ UNCHANGED <<fieldVars, loop_ids, loop_idx, task, historyVars>>
     \* "self.next_run_time = math.ceil(time.time() / interval_sec) * interval_sec"
     \/ /\ at("next_run")
        /\ next_run_time' = NextRunIn(sched_now, interval_sec[t])
        /\ interval_sec' = [interval_sec EXCEPT ![t] = 0]
        /\ goto("waiting")
        /\ UNCHANGED <<is_running, interval_minutes, target_complex_ids,
                       trade_type, last_run_time, status_msg, loop_ids, loop_idx,
                       task, historyVars>>
     \* "self.status_msg = f'대기 중 (다음 수집: {next_run_str})'"
     \/ /\ at("waiting")
        /\ status_msg' = "waiting"
        /\ goto("sleep")
        /\ UNCHANGED <<is_running, interval_minutes, target_complex_ids,
                       trade_type, last_run_time, next_run_time, loopLocals,
                       historyVars>>
     \* "time.sleep(1)" at the foot of "while True"
     \/ /\ at("sleep")
        /\ goto("if_running")
        /\ UNCHANGED <<fieldVars, loopLocals, historyVars>>
  /\ UNCHANGED <<sched_now, threadVars, callVars, notSchedVars>>

\* Half a minute passes.
Tick ==
  /\ sched_now' = (sched_now + 1) % Period
  /\ next_run_time' = Max({0, next_run_time - 1})
  /\ UNCHANGED <<is_running, interval_minutes, target_complex_ids, trade_type,
                 last_run_time, status_msg, threadVars, callVars, loop_pc,
                 loopLocals, historyVars, notSchedVars>>

InitSched ==
  /\ DashIdle
  /\ LoadIdle
  /\ AreaIdle
  /\ LowestIdle
  /\ CrawlIdle
  /\ Constructed
  /\ sched_now \in 0..(Period - 1)
  /\ call_pc = [c \in Callers |-> "idle"]

CallNext ==
  \/ \E c \in Callers : StartStep(c)
  \/ \E c \in Callers : StopStep(c)

LoopNext == \E t \in ThreadIds : LoopThread(t)

NextSched ==
  \/ \E c \in Callers, a \in StartArgs : StartCall(c, a)
  \/ \E c \in Callers : StopCall(c)
  \/ CallNext
  \/ LoopNext
  \/ Tick

SpecSched == InitSched /\ [][NextSched]_vars

\* A call that holds the lock runs to its end, the loop thread keeps being
\* scheduled, and time passes.
SpecSchedFair ==
  /\ SpecSched
  /\ WF_vars(CallNext)
  /\ WF_vars(LoopNext)
  /\ WF_vars(Tick)

\* =================================================================== claims
\* The ids of the snapshot ts, read off the loaded rows.
SnapshotIds(ts) ==
  {df[k].articleNo : k \in {j \in 1..Len(df) : df[j].timestamp = ts}}

\* render_dashboard_view has computed the metrics of current_ts.
Rendering == pc \in {"loop", "tab2", "end"}

\* The weekly loop of the current view has processed every step.
LoopDone == pc \in {"tab2", "end"} \/ (pc = "loop" /\ i > Len(sorted_ts))

\* The positions of sorted_ts the loop has processed so far.
StepsDone == {k \in 2..Len(sorted_ts) : k < i}

Events == {change_events[k] : k \in 1..Len(change_events)}
Logs == {debug_logs[k] : k \in 1..Len(debug_logs)}

\* The appeared and disappeared ids of the step at position k of sorted_ts.
StepNew(k) == SnapshotIds(sorted_ts[k]) \ SnapshotIds(sorted_ts[k - 1])
StepDel(k) == SnapshotIds(sorted_ts[k - 1]) \ SnapshotIds(sorted_ts[k])

\* The step at position k lies in the 7-day window of the reference time.
StepInWindow(k) ==
  ToDatetime(sorted_ts[k]) > ToDatetime(current_ts) - WindowDays * Cardinality(Tods)

\* C1: the diff is the exact set difference.  The per-snapshot view reports
\* new_ids = ids(current_ts) minus ids(the next entry of unique_timestamps)
\* and deleted_ids the converse; every counted event of the weekly loop
\* carries ids(curr) minus ids(prev) and ids(prev) minus ids(curr) with their
\* sizes, and every logged step carries the sizes of the two differences.
C1_DiffIsSetDifference ==
  /\ Rendering =>
       \A k \in 1..Len(unique_timestamps) :
          (unique_timestamps[k] = current_ts /\ k < Len(unique_timestamps)) =>
             /\ new_ids = SnapshotIds(current_ts) \ SnapshotIds(unique_timestamps[k + 1])
             /\ deleted_ids = SnapshotIds(unique_timestamps[k + 1]) \ SnapshotIds(current_ts)
  /\ \A e \in Events :
       /\ e.new_ids = SnapshotIds(e.timestamp) \ SnapshotIds(e.prev_timestamp)
       /\ e.del_ids = SnapshotIds(e.prev_timestamp) \ SnapshotIds(e.timestamp)
       /\ e.new_count = Cardinality(e.new_ids)
       /\ e.del_count = Cardinality(e.del_ids)
  /\ \A l \in Logs :
       \E k \in StepsDone :
          /\ sorted_ts[k] = l.timestamp
          /\ l.new = Cardinality(StepNew(k))
          /\ l.del = Cardinality(StepDel(k))

\* C1 witness: a view whose snapshot both gained and lost ids against the
\* previous one, with a counted weekly event that has both kinds of ids.
C1_Witness ==
  /\ LoopDone
  /\ new_ids # {} /\ deleted_ids # {}
  /\ \E e \in Events : e.new_ids # {} /\ e.del_ids # {}

\* C2: a step of the weekly loop that lies in the window and has more than
\* 30 appeared ids or more than 30 disappeared ids changes neither total,
\* neither per-realtor counter, nor the change-event list.
C2_AnomalousStepExcluded ==
  [][ ( /\ pc = "loop"
        /\ i <= Len(sorted_ts)
        /\ Parseable(sorted_ts[i])
        /\ StepInWindow(i)
        /\ \/ Cardinality(StepNew(i)) > 30
           \/ Cardinality(StepDel(i)) > 30 )
      => /\ cum_new_count' = cum_new_count
         /\ cum_del_count' = cum_del_count
         /\ realtor_new_counts' = realtor_new_counts
         /\ realtor_del_counts' = realtor_del_counts
         /\ change_events' = change_events ]_vars

\* C2 witness: the loop has skipped an anomalous step and counted another.
C2_Witness ==
  /\ LoopDone
  /\ \E l \in Logs : l.skipped /\ (l.new > 30 \/ l.del > 30)
  /\ cum_new_count + cum_del_count > 0

\* C3: a processed in-window step with a change is skipped as anomalous iff
\* it has more than 30 appeared or more than 30 disappeared ids, and is
\* counted iff both sizes are at most 30 (exactly 30 is counted, 31 is not).
C3_StrictThreshold ==
  \A k \in StepsDone :
     (Parseable(sorted_ts[k]) /\ StepInWindow(k) /\ (StepNew(k) # {} \/ StepDel(k) # {})) =>
        LET n == Cardinality(StepNew(k))
            d == Cardinality(StepDel(k))
        IN /\ (\E l \in Logs : l.timestamp = sorted_ts[k] /\ l.skipped) <=> (n > 30 \/ d > 30)
           /\ (\E e \in Events : e.timestamp = sorted_ts[k]) <=> (n <= 30 /\ d <= 30)

\* C3 witness: one view counted a step with exactly 30 appeared ids and
\* skipped a step with exactly 31 disappeared ids.
C3_Witness ==
  /\ LoopDone
  /\ \E e \in Events : e.new_count = 30
  /\ \E l \in Logs : l.skipped /\ l.del = 31 /\ l.new <= 30

\* C4: a viewed snapshot without a previous snapshot gets empty appeared and
\* disappeared sets and no error, and the oldest selected snapshot of the
\* weekly loop is the baseline only: no event and no log entry is about it.
C4_BaselineRule ==
  /\ ( /\ pc \in {"loop", "tab2", "end", "error"}
       /\ Parseable(current_ts)
       /\ \/ current_ts = unique_timestamps[Len(unique_timestamps)]
          \/ \A k \in 1..Len(unique_timestamps) : unique_timestamps[k] # current_ts )
     => /\ pc # "error"
        /\ new_ids = {}
        /\ deleted_ids = {}
  /\ sorted_ts # <<>> =>
       /\ \A e \in Events : e.timestamp # sorted_ts[1]
       /\ \A l \in Logs : l.timestamp # sorted_ts[1]
       /\ (Len(sorted_ts) = 1 /\ Rendering) =>
             /\ cum_new_count = 0 /\ cum_del_count = 0
             /\ change_events = <<>>

\* C4 witness: the history view of the oldest of several snapshots; it is
\* its own reference time, so the baseline lies inside the window.
C4_Witness ==
  /\ pc = "end"
  /\ key_suffix = "history"
  /\ Len(unique_timestamps) >= 2
  /\ current_ts = unique_timestamps[Len(unique_timestamps)]
  /\ SnapshotIds(current_ts) # {}
  /\ sorted_ts = <<current_ts>>

\* C5: the window boundary is strict.  A processed step with a change is
\* logged (counted or skipped as anomalous) iff its snapshot time is
\* strictly later than the reference time minus 7 days; a step exactly 7
\* days before the reference time is in no total, counter or event.
C5_StrictWindow ==
  /\ \A k \in StepsDone :
       (Parseable(sorted_ts[k]) /\ (StepNew(k) # {} \/ StepDel(k) # {})) =>
          ( (\E l \in Logs : l.timestamp = sorted_ts[k])
            <=> ToDatetime(sorted_ts[k]) > ToDatetime(current_ts) - 7 * Cardinality(Tods) )
  /\ \A e \in Events :
       /\ ToDatetime(e.timestamp) # ToDatetime(current_ts) - 7 * Cardinality(Tods)
       /\ ToDatetime(e.timestamp) > ToDatetime(current_ts) - 7 * Cardinality(Tods)

\* C5 witness: a finished loop that passed a changed step exactly 7 days
\* before the reference time and counted a later one.
C5_Witness ==
  /\ LoopDone
  /\ \E k \in StepsDone :
       /\ Parseable(sorted_ts[k])
       /\ ToDatetime(sorted_ts[k]) = ToDatetime(current_ts) - 7 * Cardinality(Tods)
       /\ StepNew(k) # {}
  /\ change_events # <<>>

\* The realtor names on the rows of id in the snapshot ts.
RealtorsOn(ts, id) ==
  {df[k].realtorName :
     k \in {j \in 1..Len(df) : df[j].timestamp = ts /\ df[j].articleNo = id}}

\* The realtor on the first row of id in the snapshot ts.
FirstRealtor(ts, id) ==
  df[Min({j \in 1..Len(df) : df[j].timestamp = ts /\ df[j].articleNo = id})].realtorName

RECURSIVE SumOver(_, _)
SumOver(f, S) ==
  IF S = {} THEN 0
  ELSE LET x == CHOOSE y \in S : TRUE
       IN f[x] + SumOver(f, S \ {x})

AllParseable == \A ts \in TimestampsOf(df) : Parseable(ts)

\* C6 (as claimed): the weekly loop selects exactly the snapshots at or
\* before the reference time and walks them in ascending chronological
\* order, whatever the textual formats of the stored timestamps.  (Stated
\* with <= between neighbours: two texts of one instant are two snapshots.)
C6_ChronologicalWalk ==
  (Rendering /\ AllParseable) =>
     /\ {sorted_ts[k] : k \in 1..Len(sorted_ts)} =
          {ts \in TimestampsOf(df) : ToDatetime(ts) <= ToDatetime(current_ts)}
     /\ \A k \in 2..Len(sorted_ts) :
          ToDatetime(sorted_ts[k - 1]) <= ToDatetime(sorted_ts[k])

\* C7: a counted step adds one to the appearance counter of the realtor the
\* curr snapshot records for each appeared id and one to the disappearance
\* counter of the realtor the prev snapshot records for each disappeared id;
\* no other counter moves.
C7_RealtorAttribution ==
  [][ (pc = "loop" /\ i <= Len(sorted_ts) /\ change_events' # change_events) =>
        LET curr == sorted_ts[i]
            prev == sorted_ts[i - 1]
            names == Realtors \cup {UnknownRealtor}
                       \cup (DOMAIN realtor_new_counts') \cup (DOMAIN realtor_del_counts')
            IncNew == [r \in names |->
                         Get(realtor_new_counts', r, 0) - Get(realtor_new_counts, r, 0)]
            IncDel == [r \in names |->
                         Get(realtor_del_counts', r, 0) - Get(realtor_del_counts, r, 0)]
        IN /\ \A r \in names :
                /\ IncNew[r] >= Cardinality({id \in StepNew(i) : RealtorsOn(curr, id) = {r}})
                /\ IncNew[r] <= Cardinality({id \in StepNew(i) : r \in RealtorsOn(curr, id)})
                /\ IncDel[r] >= Cardinality({id \in StepDel(i) : RealtorsOn(prev, id) = {r}})
                /\ IncDel[r] <= Cardinality({id \in StepDel(i) : r \in RealtorsOn(prev, id)})
           /\ SumOver(IncNew, names) = Cardinality(StepNew(i))
           /\ SumOver(IncDel, names) = Cardinality(StepDel(i)) ]_vars

\* C7 witness: a finished loop that credited appearances to two realtors
\* and a disappearance to one.
C7_Witness ==
  /\ LoopDone
  /\ Get(realtor_new_counts, "R1", 0) > 0
  /\ Get(realtor_new_counts, "R2", 0) > 0
  /\ \E r \in Realtors : Get(realtor_del_counts, r, 0) > 0

\* C8 (as claimed): duplicate rows of one id in a snapshot count once and the
\* first row decides the realtor: count_diff is the difference of the numbers
\* of distinct ids, and the weekly loop's mapping gives each id the realtor
\* of its first row.
C8_DuplicatesKeepFirst ==
  (Rendering /\ AllParseable) =>
     /\ \A k \in 1..Len(unique_timestamps) :
          (unique_timestamps[k] = current_ts /\ k < Len(unique_timestamps)) =>
             count_diff = Cardinality(SnapshotIds(current_ts))
                            - Cardinality(SnapshotIds(unique_timestamps[k + 1]))
     /\ \A ts \in DOMAIN ts_data_map :
          \A id \in DOMAIN ts_data_map[ts] :
             ts_data_map[ts][id] = FirstRealtor(ts, id)

\* C9 (as claimed): a malformed timestamp never makes a view fail, is never
\* the current snapshot and is never the prev or curr of a diff.
C9_MalformedExcluded ==
  /\ pc # "error"
  /\ current_ts # NoTs => Parseable(current_ts)
  /\ prev_ts # NoTs => Parseable(prev_ts)
  /\ \A k \in 1..Len(sorted_ts) : Parseable(sorted_ts[k])
  /\ \A e \in Events : Parseable(e.timestamp) /\ Parseable(e.prev_timestamp)

\* C10 (as claimed): unique_timestamps holds each stored timestamp value once
\* and is ordered descending by snapshot time, index 0 the most recent.
C10_DescendingByTime ==
  (pc # "idle" /\ AllParseable) =>
     /\ {unique_timestamps[k] : k \in 1..Len(unique_timestamps)} = TimestampsOf(df)
     /\ \A j, k \in 1..Len(unique_timestamps) :
          j < k => /\ unique_timestamps[j] # unique_timestamps[k]
                   /\ ToDatetime(unique_timestamps[j]) >= ToDatetime(unique_timestamps[k])

\* The sums of the counted events' sizes.
EventsNewSum ==
  SumOver([k \in 1..Len(change_events) |-> change_events[k].new_count],
          1..Len(change_events))
EventsDelSum ==
  SumOver([k \in 1..Len(change_events) |-> change_events[k].del_count],
          1..Len(change_events))

\* C11: when the viewed snapshot's transition from its previous snapshot has
\* more than 30 appeared or more than 30 disappeared ids, the per-snapshot
\* view still reports the full, unfiltered set differences (their sizes are
\* the new-entry and deleted counts), while the finished weekly loop has no
\* event for that transition, has logged it as skipped, and its totals are
\* the sums of the counted events only.
C11_AnomalyShownInViewOnly ==
  LoopDone =>
    \A k \in 1..Len(unique_timestamps) :
       (unique_timestamps[k] = current_ts /\ k < Len(unique_timestamps)) =>
          LET appeared == SnapshotIds(current_ts) \ SnapshotIds(unique_timestamps[k + 1])
              disappeared == SnapshotIds(unique_timestamps[k + 1]) \ SnapshotIds(current_ts)
          IN (Cardinality(appeared) > 30 \/ Cardinality(disappeared) > 30) =>
                /\ Cardinality(new_ids) = Cardinality(appeared)
                /\ Cardinality(deleted_ids) = Cardinality(disappeared)
                /\ \A e \in Events : e.timestamp # current_ts
                /\ \E l \in Logs : l.timestamp = current_ts /\ l.skipped
                /\ cum_new_count = EventsNewSum
                /\ cum_del_count = EventsDelSum

\* C11 witness: a finished view of a snapshot that gained more than 30 ids
\* against its previous snapshot, in a week that also has a counted event.
C11_Witness ==
  /\ LoopDone
  /\ Cardinality(new_ids) > 30
  /\ \E l \in Logs : l.timestamp = current_ts /\ l.skipped
  /\ cum_new_count + cum_del_count > 0

\* C12 (as claimed): with no stored records, or with the store unavailable,
\* load_data returns the empty list and the script stops without rendering;
\* load_data returns the empty list on any backend error; and the snapshot
\* computations are never called with an empty record set.
C12_EmptyScope ==
  /\ (load_pc \in {"returned", "stopped", "tabs", "render", "warning"}
        /\ (stored = 0 \/ ~IS_SUPABASE_READY)) =>
       /\ data = 0
       /\ load_pc \in {"returned", "stopped"}
  /\ (load_pc \in {"returned", "stopped", "tabs", "render", "warning"}
        /\ pagination_error) => data = 0
  /\ load_pc = "render" => (data > 0 /\ filtered_df > 0)

\* C13: get_area_type maps a size s (square metres) to '59' iff
\* 50 <= s < 70, '84' iff 70 <= s < 100, '120' iff 100 <= s < 135, '152'
\* iff 135 <= s < 165, '175' iff 165 <= s < 200 and to '기타' otherwise,
\* non-numeric sizes included; every size gets exactly one label (69.9 is
\* '59', 70.0 is '84', 49.9 is '기타').
C13_AreaBands ==
  area_type # "" =>
    LET num == size.kind = "number"
        s == size.hundredths
    IN /\ area_type = "59" <=> (num /\ 5000 <= s /\ s < 7000)
       /\ area_type = "84" <=> (num /\ 7000 <= s /\ s < 10000)
       /\ area_type = "120" <=> (num /\ 10000 <= s /\ s < 13500)
       /\ area_type = "152" <=> (num /\ 13500 <= s /\ s < 16500)
       /\ area_type = "175" <=> (num /\ 16500 <= s /\ s < 20000)
       /\ area_type = "other" <=> (~num \/ s < 5000 \/ s >= 20000)
       /\ area_type \in {"59", "84", "120", "152", "175", "other"}
       /\ (num /\ s = 6990) => area_type = "59"
       /\ (num /\ s = 7000) => area_type = "84"
       /\ (num /\ s = 4990) => area_type = "other"

\* C13 witness: a size exactly on the 70 boundary has been classified '84'.
C13_Witness ==
  /\ size = NumberSize(7000)
  /\ area_type = "84"

\* The rows of the snapshot whose size lies in the band of label t.
InBand(t) ==
  {k \in 1..Len(snapshot_rows) :
     LET s == snapshot_rows[k].spc2.hundredths
     IN /\ snapshot_rows[k].spc2.kind = "number"
        /\ \/ t = "59" /\ 5000 <= s /\ s < 7000
           \/ t = "84" /\ 7000 <= s /\ s < 10000
           \/ t = "120" /\ 10000 <= s /\ s < 13500
           \/ t = "152" /\ 13500 <= s /\ s < 16500
           \/ t = "175" /\ 16500 <= s /\ s < 20000}

\* The rows of band t at the band's lowest price.
AtBandMin(t) ==
  {k \in InBand(t) : \A j \in InBand(t) : snapshot_rows[k].price_int <= snapshot_rows[j].price_int}

NamedBands == {"59", "84", "120", "152", "175"}

\* C14: for each named band with at least one listing, the representative is
\* the first row in input order whose price is the band's minimum, and the
\* all-tied table holds exactly the band's rows at that minimum, each once.
C14_LowestPrice ==
  lowest_list # "unset" =>
    \A t \in NamedBands :
       InBand(t) # {} =>
          /\ \E j \in 1..Len(lowest_list) :
                lowest_list[j] = snapshot_rows[Min(AtBandMin(t))]
          /\ \A j \in 1..Len(lowest_list) :
                lowest_list[j].type = t => lowest_list[j] = snapshot_rows[Min(AtBandMin(t))]
          /\ {f_lowest[j] : j \in {i2 \in 1..Len(f_lowest) : f_lowest[i2].type = t}}
               = {snapshot_rows[k] : k \in AtBandMin(t)}
          /\ Cardinality({j \in 1..Len(f_lowest) : f_lowest[j].type = t})
               = Cardinality(AtBandMin(t))

\* C14 witness: a band with three listings, the first dearer than the other
\* two, whose representative is the second row and whose all-tied rows are
\* the second and the third.
C14_Witness ==
  /\ lowest_list # "unset"
  /\ Len(snapshot_rows) = 3
  /\ InBand("84") = {1, 2, 3}
  /\ AtBandMin("84") = {2, 3}
  /\ lowest_list = <<snapshot_rows[2]>>
  /\ f_lowest = <<snapshot_rows[2], snapshot_rows[3]>>

\* C15: the lowest-price tables have an entry for a band iff the band is one
\* of the five named bands and at least one listing of the snapshot falls in
\* it: an empty band is left out and '기타' never appears.
C15_BandsPresent ==
  lowest_list # "unset" =>
    /\ {lowest_list[j].type : j \in 1..Len(lowest_list)} = {t \in NamedBands : InBand(t) # {}}
    /\ {f_lowest[j].type : j \in 1..Len(f_lowest)} = {t \in NamedBands : InBand(t) # {}}
    /\ Len(lowest_list) = Cardinality({t \in NamedBands : InBand(t) # {}})
    /\ \A j \in 1..Len(lowest_list) : lowest_list[j].type # "other"
    /\ \A j \in 1..Len(f_lowest) : f_lowest[j].type # "other"

\* C15 witness: a snapshot with a listing in band 59, a listing in band 175
\* and a listing outside the bands; the table has the two bands only.
C15_Witness ==
  /\ lowest_list # "unset"
  /\ InBand("59") # {} /\ InBand("175") # {} /\ InBand("84") = {}
  /\ \E k \in 1..Len(snapshot_rows) : snapshot_rows[k].type = "other"
  /\ Len(lowest_list) = 2

\* C16 (as claimed): a scrape that observed no listings is a snapshot of the
\* sequence like any other: after every scrape the stored rows hold a
\* snapshot at the scrape's timestamp, so that the transition into it is a
\* diff event (26 disappeared ids of 26) and the next snapshot is diffed
\* against it.  Stated for scrapes that follow a stored snapshot.
C16_EmptySnapshotStored ==
  [][ (table # <<>> /\ clock' # clock) =>
         get_timestamp_str(clock') \in TimestampsOf(table') ]_vars

\* The timestamps on a list of rows.
StampsOn(rows) == {rows[k].timestamp : k \in 1..Len(rows)}

\* C17: all rows of one fetch_listings call carry one timestamp value, the
\* call's batch timestamp, however many pages were fetched and whether or
\* not a page failed part-way; rows of two different calls carry the same
\* timestamp only if the two batch timestamps are equal.
C17_OneStampPerScrape ==
  /\ crawl_pc \in {"paging", "returned"} => StampsOn(all_articles) \subseteq {batch_timestamp}
  /\ \A c \in 1..Len(calls) :
       /\ Cardinality(StampsOn(calls[c].all_articles)) <= 1
       /\ StampsOn(calls[c].all_articles) \subseteq {calls[c].batch_timestamp}
  /\ \A c, d \in 1..Len(calls) :
       (c # d /\ StampsOn(calls[c].all_articles) \cap StampsOn(calls[d].all_articles) # {})
          => calls[c].batch_timestamp = calls[d].batch_timestamp

\* C17 witness: a call that fetched two full pages while the clock moved on
\* and then failed part-way through the third, followed by a second call
\* with another batch timestamp.
C17_Witness ==
  /\ Len(calls) = 2
  /\ Len(calls[1].all_articles) = 2 * 20 + 2
  /\ get_timestamp_str(wall) # calls[1].batch_timestamp
  /\ calls[2].all_articles # <<>>
  /\ calls[2].batch_timestamp # calls[1].batch_timestamp

\* C19: diff symmetry.  For any two snapshots A and B of the loaded rows the
\* appeared ids of the diff of A against B are the disappeared ids of the
\* diff of B against A and conversely, in the per-snapshot view's diff and
\* in the weekly loop's; the appeared and disappeared ids of one diff are
\* disjoint, in every pair of snapshots, in the view's metrics and in every
\* counted event.  (The pairs of rows are taken when the rows have just been
\* loaded and the pairs of the loop's mappings when the loop starts; neither
\* changes until the next view.)
C19_DiffSymmetry ==
  /\ \A a, b \in (IF pc = "tab1" THEN TimestampsOf(df) ELSE {}) :
       LET A == RowsAt(df, a)
           B == RowsAt(df, b)
       IN /\ NewIds(A, B) = DeletedIds(B, A)
          /\ DeletedIds(A, B) = NewIds(B, A)
          /\ NewIds(A, B) \cap DeletedIds(A, B) = {}
  /\ \A a, b \in (IF pc = "loop" /\ i = 2 THEN DOMAIN ts_data_map ELSE {}) :
       LET A == ts_data_map[a]
           B == ts_data_map[b]
       IN /\ NewInStep(A, B) = DelInStep(B, A)
          /\ DelInStep(A, B) = NewInStep(B, A)
          /\ NewInStep(A, B) \cap DelInStep(A, B) = {}
  /\ new_ids \cap deleted_ids = {}
  /\ \A e \in Events : e.new_ids \cap e.del_ids = {}

\* C19 witness: the history view of a snapshot that both gained and lost ids
\* against its previous snapshot, with a counted event that has both kinds.
C19_Witness ==
  /\ pc = "end"
  /\ key_suffix = "history"
  /\ Len(unique_timestamps) >= 2
  /\ new_ids # {} /\ deleted_ids # {}
  /\ \E e \in Events : e.timestamp = current_ts /\ e.new_ids # {} /\ e.del_ids # {}

\* The time a display_ts text shows.
DisplayTime(d) == d[1] * Cardinality(Tods) + d[2]

\* C20 (as claimed): the change log is displayed most recent first, and the
\* detail shown for the selected display row k is that of the k-th most
\* recent event, element len-1-k of the event list, which is the event the
\* row displays.
C20_NewestFirstDrillDown ==
  (pc \in {"tab2", "end"}) =>
     /\ Len(log_disp_df) = Len(change_events)
     /\ \A j, k \in 1..Len(log_disp_df) :
          j < k => DisplayTime(log_disp_df[j].display_ts) >= DisplayTime(log_disp_df[k].display_ts)
     /\ sel_row_idx # NoRow =>
          /\ selected_event = <<change_events[Len(change_events) - sel_row_idx]>>
          /\ selected_event[1].display_ts = log_disp_df[sel_row_idx + 1].display_ts
          /\ selected_event[1].new_count = log_disp_df[sel_row_idx + 1].new_count
          /\ selected_event[1].del_count = log_disp_df[sel_row_idx + 1].del_count

\* The snapshot p is the immediate chronological predecessor of the snapshot
\* c among the selected snapshots.
ChronoPred(p, c) ==
  /\ ToDatetime(p) <= ToDatetime(c)
  /\ \A k \in 1..Len(sorted_ts) :
       ~(ToDatetime(p) < ToDatetime(sorted_ts[k]) /\ ToDatetime(sorted_ts[k]) < ToDatetime(c))

\* The loop's previous snapshot is the one just before position i, whatever
\* the steps before did (outside the window, anomalous, without a change).
PrevAdvances ==
  (pc = "loop" /\ Len(sorted_ts) > 1) =>
     /\ prev_ts = sorted_ts[i - 1]
     /\ prev_items = ts_data_map[sorted_ts[i - 1]]

\* C22 (as claimed): the previous-snapshot mapping advances on every step of
\* the weekly loop, so that every snapshot is diffed against its immediate
\* chronological predecessor among the selected snapshots: the loop's prev
\* is the snapshot just before the current position and is the chronological
\* predecessor of the snapshot about to be processed, and every counted
\* event names that predecessor.
C22_PrevIsPredecessor ==
  AllParseable =>
     /\ PrevAdvances
     /\ (pc = "loop" /\ i <= Len(sorted_ts)) => ChronoPred(prev_ts, sorted_ts[i])
     /\ \A e \in Events : ChronoPred(e.prev_timestamp, e.timestamp)

\* C26: accounting of the weekly aggregation, after any prefix of the walk.
\* The appeared total is the sum of the per-realtor appearance counters and
\* the sum of new_count over the recorded events; the disappeared total is
\* the sum of the per-realtor disappearance counters and the sum of
\* del_count over the recorded events; every recorded event has at least
\* one id and at most 30 appeared and at most 30 disappeared ids.
C26_Accounting ==
  /\ cum_new_count = SumOver(realtor_new_counts, DOMAIN realtor_new_counts)
  /\ cum_new_count = EventsNewSum
  /\ cum_del_count = SumOver(realtor_del_counts, DOMAIN realtor_del_counts)
  /\ cum_del_count = EventsDelSum
  /\ \A e \in Events :
       /\ e.new_count + e.del_count >= 1
       /\ e.new_count <= 30
       /\ e.del_count <= 30

\* C26 witness: a walk still under way, with a step left to process, that
\* has recorded an event with both appeared and disappeared ids.
C26_Witness ==
  /\ pc = "loop"
  /\ i <= Len(sorted_ts)
  /\ change_events # <<>>
  /\ cum_new_count > 0
  /\ cum_del_count > 0

\* ---- the scheduler's claims
LoopAt(p) == \E t \in ThreadIds : loop_pc[t] = p
InStart(c) == call_pc[c] \in {"start_ids", "start_trade", "start_running", "start_last",
                              "start_next", "start_thread", "start_msg"}
BatchBegins(t) == loop_pc[t] = "if_due" /\ loop_pc'[t] = "collecting"
SchedulesNext(t) == loop_pc[t] = "next_run" /\ loop_pc'[t] = "waiting"

\* C21: while the scheduler stays running, batches begin again and again; when
\* the loop schedules the next run after a batch, the run time it sets is the
\* smallest multiple of the interval at or after the clock's reading, a batch
\* begins only when the run time is reached, and once it is reached while the
\* scheduler runs, a batch begins (or the scheduler is stopped first).
C21_Periodic ==
  /\ [][\A t \in ThreadIds :
          /\ SchedulesNext(t) =>
               /\ (sched_now + next_run_time') % interval_sec[t] = 0
               /\ next_run_time' < interval_sec[t]
               /\ interval_sec[t] \in {m * TicksPerMinute : m \in IntervalChoices}
          /\ BatchBegins(t) => next_run_time = 0]_vars
  /\ (<>[]is_running) => []<>LoopAt("collecting")
  /\ (is_running /\ next_run_time = 0) ~> (LoopAt("collecting") \/ ~is_running)

\* The loop is about to begin the batch that a run time on an interval
\* boundary, set after an earlier batch, has come due for.
C21_Witness ==
  /\ is_running /\ last_run_time /\ next_run_time = 0 /\ status_msg = "waiting"
  /\ LoopAt("if_due") /\ sched_now % (interval_minutes * TicksPerMinute) = 0
  /\ \A c \in Callers : call_pc[c] = "idle"

\* C23: once a start() call has scheduled the first run, and so after it has
\* returned, the run time stays due until the loop begins its next batch or
\* another call is made, so that the batch begins without waiting for an
\* interval boundary; and every task of that batch is run for the complex ids
\* and with the trade type passed to that call.
ImmediateAfterStart == fresh_start # NoArgs => is_running /\ next_run_time = 0
CollectsWhatWasPassed ==
  \A t \in ThreadIds :
     (batch_start[t] # NoArgs /\ task[t] # NoArgs) =>
        /\ loop_ids[t] = batch_start[t][1].complex_ids
        /\ task[t][1].trade_type = batch_start[t][1].trade_type
C23_ImmediateFirstRun == ImmediateAfterStart /\ CollectsWhatWasPassed

\* C24: after a stop() has returned and until start() is called again, the loop
\* starts no run_collection_task, and status_msg is neither the collecting
\* message nor the waiting message.
Stopped == ~is_running /\ \A c \in Callers : call_pc[c] = "idle"
TaskStarts == \E t \in ThreadIds : loop_pc[t] = "for" /\ loop_pc'[t] = "task"
StoppedStatus == Stopped => status_msg \notin {"collecting", "waiting"}
NoTaskWhileStopped == [][Stopped => ~TaskStarts]_vars
C24_StoppedStaysStopped == [][Stopped => ~TaskStarts /\ StoppedStatus]_vars

\* C25: at most one thread runs _loop at any time, whatever start() and stop()
\* calls were made and however they interleave: self._thread refers to that
\* thread, a caller is inside start() or stop() only while it holds the lock, a
\* stop() leaves the thread alive, and no two threads are in a batch together.
InBatch(t) == loop_pc[t] \in {"collecting", "for_iter", "for", "task", "last_run",
                              "interval", "next_run", "waiting"}
OneLoopThread ==
  /\ Cardinality(threads) <= 1
  /\ threads = IF thread = NoThread THEN {} ELSE {thread}
  /\ \A t \in ThreadIds : t \in threads <=> loop_pc[t] # "none"
  /\ \A c \in Callers : call_pc[c] # "idle" => lock = c
  /\ Cardinality({t \in ThreadIds : InBatch(t)}) <= 1
C25_OneLoopThread ==
  /\ []OneLoopThread
  /\ [][/\ threads \subseteq threads'
        /\ threads' # threads => \E c \in Callers : lock = c /\ call_pc[c] = "start_thread"]_vars

\* A start() made after a stop() reaches its test of self._thread while the
\* thread of the first start() is alive, in the middle of a batch.
C25_Witness ==
  /\ \E c \in Callers : call_pc[c] = "start_thread"
  /\ thread \in threads /\ status_msg = "collecting" /\ InBatch(thread)
  /\ last_run_time = FALSE /\ loop_pc[thread] = "task"

====
